---- MODULE Spec2Model ----
(***************************************************************************)
(* A model of apple/internal/templates/ios_sim.template.py: the simulator  *)
(* discovery, ranking and selection code, the persistent and temporary     *)
(* simulator lifecycles, the boot wait and the install/launch pipeline.    *)
(*                                                                         *)
(* Python strings are sequences of one-character strings, so that          *)
(* split, casefold, rstrip, find and `in` are computed, not assumed.       *)
(* An optional value (a missing JSON key, Python's None) is <<>> and a     *)
(* present value v is <<v>>.                                               *)
(***************************************************************************)
EXTENDS Integers, Sequences, FiniteSets, TLC

VARIABLES
  simctl_data,      \* the parsed output of `simctl list -j`
  minimum_os,       \* main()'s minimum_os
  sim_device,       \* main()'s sim_device ("" when not passed)
  sim_os_version,   \* main()'s sim_os_version ("" when not passed)
  sel,              \* what discover_best_compatible_simulator computed
  pc,               \* where the running script is
  log,              \* every external command issued so far, in order
  simulator_udid,   \* the udid handed to the consumer, <<>> before that
  error,            \* the exception that ended the run, <<>> if none
  polls,            \* `simctl list devices` polls made by wait_for_sim_to_boot
  listing,          \* the output of the latest `simctl list devices`
  va, vb,           \* two version strings
  ka, kb            \* their runtime versions, <<>> before conversion

vars == <<simctl_data, minimum_os, sim_device, sim_os_version, sel, pc, log,
          simulator_udid, error, polls, listing, va, vb, ka, kb>>

----------------------------------------------------------------------------
(* Bounds of the model.                                                    *)

\* version strings have at most this many dot-separated components
MaxComponents == 3

\* a catalog lists at most this many device types
MaxDeviceTypes == 3

\* a catalog lists at most this many devices, over all its runtimes
MaxDevices == 3

\* a catalog of a whole run lists at most this many devices
MaxRunDevices == 1

\* the work done while a temporary simulator is held runs at most this many
\* commands
MaxWorkSteps == 2

----------------------------------------------------------------------------
(* Strings.                                                                *)

None == <<>>
Some(v) == <<v>>

\* Python truthiness of an optional string: None and "" are false.
TruthyStr(o) == o # None /\ o[1] # <<>>

\* Python truthiness of an optional integer: None and 0 are false.
TruthyInt(o) == o # None /\ o[1] # 0

\* str.find(sub) != -1, and `sub in s`
Contains(sub, s) ==
  \E i \in 0..(Len(s) - Len(sub)) : SubSeq(s, i + 1, i + Len(sub)) = sub

Digits == <<"0", "1", "2", "3", "4", "5", "6", "7", "8", "9">>

IsDigit(c) == \E d \in 1..10 : Digits[d] = c

DigitValue(c) == (CHOOSE d \in 1..10 : Digits[d] = c) - 1

\* 2^n
RECURSIVE Pow2(_)
Pow2(n) == IF n = 0 THEN 1 ELSE 2 * Pow2(n - 1)

\* a << n on Python's unbounded integers
ShiftLeft(a, n) == a * Pow2(n)

\* a | b on Python's unbounded non-negative integers
RECURSIVE BitOr(_, _)
BitOr(a, b) ==
  IF a = 0 THEN b
  ELSE IF b = 0 THEN a
  ELSE (IF a % 2 = 1 \/ b % 2 = 1 THEN 1 ELSE 0) + 2 * BitOr(a \div 2, b \div 2)

\* str.split(sep) for a one-character separator
RECURSIVE Split(_, _)
Split(s, sep) ==
  IF \A i \in 1..Len(s) : s[i] # sep THEN <<s>>
  ELSE LET i == CHOOSE j \in 1..Len(s) :
                  s[j] = sep /\ \A k \in 1..(j - 1) : s[k] # sep
       IN <<SubSeq(s, 1, i - 1)>> \o Split(SubSeq(s, i + 1, Len(s)), sep)

\* int(component) raises ValueError on an empty or non-numeric string
ValueError == -1

RECURSIVE DecimalValue(_)
DecimalValue(s) ==
  IF s = <<>> THEN 0
  ELSE 10 * DecimalValue(SubSeq(s, 1, Len(s) - 1)) + DigitValue(s[Len(s)])

ParseInt(s) ==
  IF s # <<>> /\ \A i \in 1..Len(s) : IsDigit(s[i])
  THEN DecimalValue(s)
  ELSE ValueError

----------------------------------------------------------------------------
(* minimum_os_to_simctl_runtime_version                                    *)

\* (minimum_os.split(".") + ["0"] * 3)[:3]
PaddedComponents(version) ==
  SubSeq(Split(version, ".") \o <<<<"0">>, <<"0">>, <<"0">>>>, 1, 3)

\* a plausible slip: the components are packed four bits apart
RuntimeVersionNibbles(version) ==
  LET c == PaddedComponents(version)
      n == [i \in 1..3 |-> ParseInt(c[i])]
  IN IF \E i \in 1..3 : n[i] = ValueError THEN ValueError
     ELSE BitOr(ShiftLeft(BitOr(ShiftLeft(BitOr(ShiftLeft(0, 4), n[1]), 4), n[2]), 4), n[3])

\* a plausible slip: the components are packed least-significant-first
RuntimeVersionMicroFirst(version) ==
  LET c == PaddedComponents(version)
      n == [i \in 1..3 |-> ParseInt(c[i])]
  IN IF \E i \in 1..3 : n[i] = ValueError THEN ValueError
     ELSE BitOr(ShiftLeft(BitOr(ShiftLeft(BitOr(ShiftLeft(0, 8), n[3]), 8), n[2]), 8), n[1])

minimum_os_to_simctl_runtime_version(version) ==
  LET c == PaddedComponents(version)
      n == [i \in 1..3 |-> ParseInt(c[i])]
  IN IF \E i \in 1..3 : n[i] = ValueError THEN ValueError
     ELSE BitOr(ShiftLeft(BitOr(ShiftLeft(BitOr(ShiftLeft(0, 8), n[1]), 8), n[2]), 8), n[3])

----------------------------------------------------------------------------
(* The version strings the conversion is exercised on.                     *)

ComponentPool == { <<"0">>, <<"0", "7">>, <<"2", "5", "5">>, <<"2", "5", "6">> }

RECURSIVE JoinDots(_)
JoinDots(cs) ==
  IF Len(cs) = 1 THEN cs[1] ELSE cs[1] \o <<".">> \o JoinDots(Tail(cs))

ValidVersions(n) ==
  UNION { { JoinDots(cs) : cs \in [1..k -> ComponentPool] } : k \in 1..n }

InvalidVersions == { <<>>, <<"1", "3", ".">>, <<"1", "3", ".", "x">> }

V_13_2_0 == <<"1", "3", ".", "2", ".", "0">>
V_13_2_0_9 == <<"1", "3", ".", "2", ".", "0", ".", "9">>

\* versions written out in full, and one with a fourth component
LongVersions == {V_13_2_0, V_13_2_0_9}

----------------------------------------------------------------------------
(* str.casefold, str.rstrip                                                *)

UpperCase == <<"A", "B", "C", "D", "E", "F", "G", "H", "I", "J", "K", "L", "M",
               "N", "O", "P", "Q", "R", "S", "T", "U", "V", "W", "X", "Y", "Z">>

LowerCase == <<"a", "b", "c", "d", "e", "f", "g", "h", "i", "j", "k", "l", "m",
               "n", "o", "p", "q", "r", "s", "t", "u", "v", "w", "x", "y", "z">>

CaseFoldChar(c) ==
  IF \E i \in 1..26 : UpperCase[i] = c
  THEN LowerCase[CHOOSE i \in 1..26 : UpperCase[i] = c]
  ELSE c

CaseFold(s) == [i \in 1..Len(s) |-> CaseFoldChar(s[i])]

IsSpace(c) == c \in {" ", "\n", "\t"}

\* a plausible slip: the output is used as printed
NoRStrip(s) == s

RECURSIVE RStrip(_)
RStrip(s) ==
  IF s # <<>> /\ IsSpace(s[Len(s)]) THEN RStrip(SubSeq(s, 1, Len(s) - 1)) ELSE s

----------------------------------------------------------------------------
(* class DeviceType: a `devicetype` record and its simctl_list_index       *)

S_iPhone == <<"i", "P", "h", "o", "n", "e">>
S_iPad == <<"i", "P", "a", "d">>

DeviceType(device_type, simctl_list_index) ==
  [device_type |-> device_type, simctl_list_index |-> simctl_list_index]

has_product_family_or_identifier(self, device_type) ==
  IF TruthyStr(self.device_type.productFamily)
  THEN self.device_type.productFamily[1] = device_type
  ELSE Contains(device_type, self.device_type.identifier)

is_iphone(self) == has_product_family_or_identifier(self, S_iPhone)

is_ipad(self) == has_product_family_or_identifier(self, S_iPad)

\* a plausible slip: the family rule is left out, the list order alone decides
DeviceTypeLtIndexOnly(self, other) ==
  self.simctl_list_index < other.simctl_list_index

DeviceTypeLt(self, other) ==
  IF is_ipad(self) /\ is_iphone(other) THEN TRUE
  ELSE IF is_iphone(self) /\ is_ipad(other) THEN FALSE
  ELSE self.simctl_list_index < other.simctl_list_index

----------------------------------------------------------------------------
(* class Device: a `device` record and the DeviceType resolved for it      *)

S_Shutdown == <<"S", "h", "u", "t", "d", "o", "w", "n">>
S_Booted == <<"B", "o", "o", "t", "e", "d">>
S_Booting == <<"B", "o", "o", "t", "i", "n", "g">>

Device(device, device_type) == [device |-> device, device_type |-> device_type]

\* a plausible slip: every instance that is not Shutdown counts as Shutdown
is_shutdownInverted(self) == self.device.state # S_Shutdown

is_shutdown(self) == self.device.state = S_Shutdown

is_booted(self) == self.device.state = S_Booted

DeviceLt(self, other) ==
  IF is_shutdown(self) /\ is_booted(other) THEN TRUE
  ELSE IF is_booted(self) /\ is_shutdown(other) THEN FALSE
  ELSE DeviceTypeLt(self.device_type, other.device_type)

----------------------------------------------------------------------------
(* list.sort() as CPython runs it on a list shorter than 64 elements: the  *)
(* leading run is found (and reversed when strictly descending), the rest  *)
(* is inserted by binary search. Only a.__lt__(b) is ever asked.           *)

\* a < b, dispatched on the class of a
Less(a, b) ==
  IF "device" \in DOMAIN a THEN DeviceLt(a, b) ELSE DeviceTypeLt(a, b)

Reverse(s) == [i \in 1..Len(s) |-> s[Len(s) + 1 - i]]

\* the length of the run that starts at s[1], given that s[1..n] is in it
RECURSIVE RunLength(_, _, _)
RunLength(s, n, descending) ==
  IF n < Len(s) /\ (Less(s[n + 1], s[n]) <=> descending)
  THEN RunLength(s, n + 1, descending)
  ELSE n

\* where the pivot goes in the sorted s[l..r-1]
RECURSIVE BinarySearch(_, _, _, _)
BinarySearch(s, pivot, l, r) ==
  LET p == l + ((r - l) \div 2)
      l2 == IF Less(pivot, s[p]) THEN l ELSE p + 1
      r2 == IF Less(pivot, s[p]) THEN p ELSE r
  IN IF l2 < r2 THEN BinarySearch(s, pivot, l2, r2) ELSE l2

\* s[1..start-1] is sorted; insert s[start], s[start+1], ...
RECURSIVE BinarySort(_, _)
BinarySort(s, start) ==
  IF start > Len(s) THEN s
  ELSE LET l == BinarySearch(s, s[start], 1, start)
       IN BinarySort(SubSeq(s, 1, l - 1) \o <<s[start]>> \o SubSeq(s, l, start - 1)
                       \o SubSeq(s, start + 1, Len(s)),
                     start + 1)

Sort(s) ==
  IF Len(s) < 2 THEN s
  ELSE LET descending == Less(s[2], s[1])
           n == RunLength(s, 2, descending)
           run == SubSeq(s, 1, n)
           rest == SubSeq(s, n + 1, Len(s))
       IN BinarySort((IF descending THEN Reverse(run) ELSE run) \o rest, n + 1)

----------------------------------------------------------------------------
(* discover_best_compatible_simulator, after `simctl list -j` was read     *)

\* enumerate(simctl_data["devicetypes"]), each wrapped in DeviceType
WrappedDeviceTypes(data) ==
  [i \in 1..Len(data.devicetypes) |-> DeviceType(data.devicetypes[i], i - 1)]

\* a plausible slip: `<=` for `<`, dropping a device type whose newest runtime
\* is exactly the minimum OS
KeepDeviceTypeOffByOne(device_type, minimum_runtime_version, folded_sim_device) ==
  LET max_runtime_version == device_type.device_type.maxRuntimeVersion
  IN /\ is_iphone(device_type) \/ is_ipad(device_type)
     /\ ~(TruthyInt(max_runtime_version)
            /\ max_runtime_version[1] <= minimum_runtime_version)
     /\ ~(folded_sim_device # <<>>
            /\ ~Contains(folded_sim_device, CaseFold(device_type.device_type.name)))

\* the three `continue` tests of the device type loop
KeepDeviceType(device_type, minimum_runtime_version, folded_sim_device) ==
  LET max_runtime_version == device_type.device_type.maxRuntimeVersion
  IN /\ is_iphone(device_type) \/ is_ipad(device_type)
     /\ ~(TruthyInt(max_runtime_version)
            /\ max_runtime_version[1] < minimum_runtime_version)
     /\ ~(folded_sim_device # <<>>
            /\ ~Contains(folded_sim_device, CaseFold(device_type.device_type.name)))

\* compatible_device_types, sorted
CompatibleDeviceTypes(data, min_os, device_name) ==
  LET minimum_runtime_version == minimum_os_to_simctl_runtime_version(min_os)
      folded == IF device_name # <<>> THEN CaseFold(device_name) ELSE device_name
      Keep(device_type) == KeepDeviceType(device_type, minimum_runtime_version, folded)
  IN Sort(SelectSeq(WrappedDeviceTypes(data), Keep))

\* compatible_runtime_identifiers
CompatibleRuntimeIdentifiers(data, os_version) ==
  { data.runtimes[i].identifier : i \in
      { j \in 1..Len(data.runtimes) :
          /\ data.runtimes[j].isAvailable
          /\ ~(os_version # <<>> /\ data.runtimes[j].version # os_version) } }

\* a plausible slip: the device's own isAvailable is not looked at
CompatibleDeviceIgnoringAvailability(device, compatible_device_types) ==
  LET matching == { i \in 1..Len(compatible_device_types) :
                      device.deviceTypeIdentifier
                        = compatible_device_types[i].device_type.identifier }
  IN IF matching = {} THEN None
     ELSE LET first == CHOOSE i \in matching : \A j \in matching : i <= j
          IN Some(Device(device, compatible_device_types[first]))

\* the Device made of one `device` record, None when it is skipped
CompatibleDevice(device, compatible_device_types) ==
  LET matching == { i \in 1..Len(compatible_device_types) :
                      device.deviceTypeIdentifier
                        = compatible_device_types[i].device_type.identifier }
  IN IF ~device.isAvailable \/ matching = {} THEN None
     ELSE LET first == CHOOSE i \in matching : \A j \in matching : i <= j
          IN Some(Device(device, compatible_device_types[first]))

RECURSIVE DevicesOfList(_, _)
DevicesOfList(devices, compatible_device_types) ==
  IF devices = <<>> THEN <<>>
  ELSE CompatibleDevice(Head(devices), compatible_device_types)
         \o DevicesOfList(Tail(devices), compatible_device_types)

\* the loop over simctl_data["devices"].items(), before the sort
RECURSIVE DevicesOfRuntimes(_, _, _)
DevicesOfRuntimes(items, runtime_identifiers, compatible_device_types) ==
  IF items = <<>> THEN <<>>
  ELSE (IF Head(items).runtime \in runtime_identifiers
        THEN DevicesOfList(Head(items).devices, compatible_device_types)
        ELSE <<>>)
         \o DevicesOfRuntimes(Tail(items), runtime_identifiers, compatible_device_types)

\* a plausible slip: a device is matched against every device type listed,
\* not against the compatible ones
CompatibleDevicesOfListedTypes(data, os_version, compatible_device_types) ==
  Sort(DevicesOfRuntimes(data.devices, CompatibleRuntimeIdentifiers(data, os_version),
                         WrappedDeviceTypes(data)))

\* compatible_devices, sorted
CompatibleDevices(data, os_version, compatible_device_types) ==
  Sort(DevicesOfRuntimes(data.devices, CompatibleRuntimeIdentifiers(data, os_version),
                         compatible_device_types))

\* a plausible slip: a sequence of one element is taken for an empty one
LastOrNoneOfSeveral(s) == IF Len(s) > 1 THEN Some(s[Len(s)]) ELSE None

\* s[-1] if s else None
LastOrNone(s) == IF s # <<>> THEN Some(s[Len(s)]) ELSE None

discover_best_compatible_simulator(data, min_os, device_name, os_version) ==
  LET compatible_device_types == CompatibleDeviceTypes(data, min_os, device_name)
      compatible_devices == CompatibleDevices(data, os_version, compatible_device_types)
  IN [compatible_device_types |-> compatible_device_types,
      compatible_devices |-> compatible_devices,
      best_compatible_device_type |-> LastOrNone(compatible_device_types),
      best_compatible_device |-> LastOrNone(compatible_devices)]

----------------------------------------------------------------------------
(* The catalogs and constraints the selector is exercised on. Identifiers  *)
(* of runtimes are only compared for equality and are TLA+ strings.        *)

Id_iPhone8 == <<"i", "P", "h", "o", "n", "e", "-", "8">>
Id_iPadPro == <<"i", "P", "a", "d", "-", "P", "r", "o">>
Id_iPhoneiPad == <<"i", "P", "h", "o", "n", "e", "-", "i", "P", "a", "d">>
Id_AppleTV == <<"A", "p", "p", "l", "e", "-", "T", "V">>
Id_iPadiPhone == <<"i", "P", "a", "d", "-", "i", "P", "h", "o", "n", "e">>

IdentifierPool == {Id_iPhone8, Id_iPadPro, Id_iPhoneiPad, Id_AppleTV}

NameOf(identifier) ==
  CASE identifier = Id_iPhone8 -> <<"i", "P", "h", "o", "n", "e", " ", "8">>
    [] identifier = Id_iPadPro -> <<"i", "P", "a", "d", " ", "P", "r", "o">>
    [] identifier = Id_iPhoneiPad -> <<"D", "u", "o">>
    [] identifier = Id_iPadiPhone -> <<"D", "u", "o", " ", "2">>
    [] OTHER -> <<"A", "p", "p", "l", "e", " ", "T", "V">>

S_AppleTV == <<"A", "p", "p", "l", "e", " ", "T", "V">>

FamilyPool == {None, Some(S_iPhone), Some(S_iPad), Some(S_AppleTV)}

\* absent, or 12.0.0 as simctl encodes it (0x0C0000)
MaxRuntimePool == {None, Some(786432)}

V_11_0 == <<"1", "1", ".", "0">>
V_12_0 == <<"1", "2", ".", "0">>
V_13_0 == <<"1", "3", ".", "0">>
V_13_2 == <<"1", "3", ".", "2">>
V_12_4 == <<"1", "2", ".", "4">>

MinimumOsPool == {V_11_0, V_12_0, V_13_0}

\* not passed, or a name in another case than the catalog's
SimDevicePool == {<<>>, <<"I", "P", "H", "O", "N", "E">>}

SimOsVersionPool == {<<>>, V_13_2}

DeviceTypeRecord(identifier, productFamily, maxRuntimeVersion) ==
  [name |-> NameOf(identifier), identifier |-> identifier,
   productFamily |-> productFamily, maxRuntimeVersion |-> maxRuntimeVersion]

Runtime(identifier, version, isAvailable) ==
  [identifier |-> identifier, version |-> version, isAvailable |-> isAvailable]

UdidOf(group, i) == <<"U", Digits[group + 1], Digits[i + 1]>>

DevicePool ==
  [state : {S_Booted, S_Shutdown, S_Booting},
   deviceTypeIdentifier : {Id_iPhone8, Id_iPadPro},
   isAvailable : BOOLEAN]

DeviceRecord(d, group, i) ==
  [udid |-> UdidOf(group, i), state |-> d.state,
   deviceTypeIdentifier |-> d.deviceTypeIdentifier, isAvailable |-> d.isAvailable]

\* a catalog of at most MaxDeviceTypes device types, with distinct identifiers,
\* and no device
TypeCatalog(data) ==
  \E k \in 0..MaxDeviceTypes :
    \E ids \in [1..k -> IdentifierPool], fam \in [1..k -> FamilyPool],
       mrv \in [1..k -> MaxRuntimePool] :
      /\ \A i, j \in 1..k : i # j => ids[i] # ids[j]
      /\ data = [devicetypes |-> [i \in 1..k |-> DeviceTypeRecord(ids[i], fam[i], mrv[i])],
                 runtimes |-> <<Runtime("iOS-13-2", V_13_2, TRUE)>>,
                 devices |-> <<[runtime |-> "iOS-13-2", devices |-> <<>>]>>]

\* a catalog of three device types and at most MaxDevices devices under two
\* runtimes; a udid is unique in a catalog
DeviceCatalog(data) ==
  \E n1 \in 0..MaxDevices, a \in BOOLEAN :
    \E n2 \in 0..(MaxDevices - n1) :
      \E d1 \in [1..n1 -> DevicePool], d2 \in [1..n2 -> DevicePool] :
        data = [devicetypes |-> <<DeviceTypeRecord(Id_iPhone8, Some(S_iPhone), None),
                                  DeviceTypeRecord(Id_iPadPro, Some(S_iPad), Some(786432)),
                                  DeviceTypeRecord(Id_AppleTV, Some(S_AppleTV), None)>>,
                runtimes |-> <<Runtime("iOS-13-2", V_13_2, a),
                               Runtime("iOS-12-4", V_12_4, TRUE)>>,
                devices |-> <<[runtime |-> "iOS-13-2",
                               devices |-> [i \in 1..n1 |-> DeviceRecord(d1[i], 1, i)]],
                              [runtime |-> "iOS-12-4",
                               devices |-> [i \in 1..n2 |-> DeviceRecord(d2[i], 2, i)]]>>]

EmptyCatalog == [devicetypes |-> <<>>, runtimes |-> <<>>, devices |-> <<>>]

----------------------------------------------------------------------------
(* The parts of the state a specification does not use.                    *)

NoRun ==
  /\ log = <<>> /\ simulator_udid = None /\ error = None /\ polls = 0 /\ listing = <<>>

NoSelection ==
  /\ simctl_data = EmptyCatalog /\ minimum_os = <<>> /\ sim_device = <<>>
  /\ sim_os_version = <<>> /\ sel = None

NoVersions == va = <<>> /\ vb = <<>> /\ ka = None /\ kb = None

----------------------------------------------------------------------------
(* The selector alone: discover_best_compatible_simulator on a catalog.    *)

InitSel ==
  /\ \/ /\ TypeCatalog(simctl_data)
        /\ sim_device \in SimDevicePool
        /\ sim_os_version = <<>>
     \/ /\ DeviceCatalog(simctl_data)
        /\ sim_device \in SimDevicePool
        /\ sim_os_version \in SimOsVersionPool
  /\ minimum_os \in MinimumOsPool
  /\ sel = None
  /\ pc = "discover"
  /\ NoRun /\ NoVersions

Discover ==
  /\ pc = "discover"
  /\ sel' = Some(discover_best_compatible_simulator(simctl_data, minimum_os,
                                                    sim_device, sim_os_version))
  /\ pc' = "discovered"
  /\ UNCHANGED <<simctl_data, minimum_os, sim_device, sim_os_version, log,
                 simulator_udid, error, polls, listing, va, vb, ka, kb>>

NextSel == Discover

SpecSel == InitSel /\ [][NextSel]_vars

----------------------------------------------------------------------------
(* Claims about the selector, checked under SpecSel.                       *)

Range(s) == { s[i] : i \in DOMAIN s }

\* the element of a non-empty set of device types listed last by simctl
LastListed(types) ==
  CHOOSE t \in types : \A u \in types : u.simctl_list_index <= t.simctl_list_index

\* what the claims call the best device type of a set of survivors: the
\* iPhone listed last if there is an iPhone, otherwise the iPad listed last
RankedMaximum(types) ==
  LET phones == { t \in types : is_iphone(t) }
      pads == { t \in types : is_ipad(t) }
  IN IF phones # {} THEN Some(LastListed(phones))
     ELSE IF pads # {} THEN Some(LastListed(pads))
     ELSE None

\* C6: for every catalog the best device type returned is the surviving
\* iPhone with the highest catalog index if an iPhone survives, otherwise the
\* surviving iPad with the highest catalog index.
C6_BestDeviceTypeIsRankedMaximum ==
  pc = "discovered" =>
    sel[1].best_compatible_device_type
      = RankedMaximum(Range(sel[1].compatible_device_types))

\* C6 holds of every catalog in which no surviving device type classifies as
\* both an iPhone and an iPad.
C6_RankedMaximumWhenFamiliesAreUnambiguous ==
  (/\ pc = "discovered"
   /\ \A t \in Range(sel[1].compatible_device_types) : ~(is_iphone(t) /\ is_ipad(t)))
    => sel[1].best_compatible_device_type
         = RankedMaximum(Range(sel[1].compatible_device_types))

\* C7: whenever a Booted instance survives the instance pass, the best
\* instance returned is not a Shutdown instance.
C7_BootedOutranksShutdown ==
  (/\ pc = "discovered"
   /\ \E d \in Range(sel[1].compatible_devices) : is_booted(d))
    => /\ sel[1].best_compatible_device # None
       /\ ~is_shutdown(sel[1].best_compatible_device[1])

\* C7 holds of every catalog whose surviving instances are all Booted or
\* Shutdown.
C7_BootedOutranksShutdownWithoutOtherStates ==
  (/\ pc = "discovered"
   /\ \E d \in Range(sel[1].compatible_devices) : is_booted(d)
   /\ \A d \in Range(sel[1].compatible_devices) : is_booted(d) \/ is_shutdown(d))
    => /\ sel[1].best_compatible_device # None
       /\ is_booted(sel[1].best_compatible_device[1])

\* the family test the claims describe: productFamily when present, otherwise
\* the identifier's text
ClassifiesAs(record, family) ==
  IF record.productFamily # None THEN record.productFamily[1] = family
  ELSE Contains(family, record.identifier)

\* C9: a catalog device type is kept iff it classifies as iPhone or iPad, its
\* maxRuntimeVersion is absent or >= VersionKey(minimum OS), and no name filter
\* was given or its case-folded name contains the case-folded filter. A device
\* type without maxRuntimeVersion is kept for every minimum OS; one with
\* maxRuntimeVersion 12.0.0 is dropped for 13.0 and kept for 11.0.
C9_DeviceTypePass ==
  pc = "discovered" =>
    LET kept == Range(sel[1].compatible_device_types)
        listed == simctl_data.devicetypes
        FamilyOk(r) == ClassifiesAs(r, S_iPhone) \/ ClassifiesAs(r, S_iPad)
        VersionOk(r) ==
          \/ r.maxRuntimeVersion = None
          \/ r.maxRuntimeVersion[1] >= minimum_os_to_simctl_runtime_version(minimum_os)
        NameOk(r) ==
          sim_device = <<>> \/ Contains(CaseFold(sim_device), CaseFold(r.name))
        Kept(i) == DeviceType(listed[i], i - 1) \in kept
    IN /\ \A i \in 1..Len(listed) :
            Kept(i) <=> (FamilyOk(listed[i]) /\ VersionOk(listed[i]) /\ NameOk(listed[i]))
       /\ kept \subseteq { DeviceType(listed[i], i - 1) : i \in 1..Len(listed) }
       /\ Len(sel[1].compatible_device_types) = Cardinality(kept)
       /\ \A i \in 1..Len(listed) :
            (FamilyOk(listed[i]) /\ NameOk(listed[i])) =>
              /\ listed[i].maxRuntimeVersion = None => Kept(i)
              /\ (listed[i].maxRuntimeVersion = Some(786432) /\ minimum_os = V_13_0)
                   => ~Kept(i)
              /\ (listed[i].maxRuntimeVersion = Some(786432) /\ minimum_os = V_11_0)
                   => Kept(i)

\* C9's case: under minimum OS 13.0 one device type is dropped for its
\* maxRuntimeVersion, one is dropped for its family and one, classified by its
\* identifier alone and without maxRuntimeVersion, is kept.
C9_Witness ==
  /\ pc = "discovered"
  /\ minimum_os = V_13_0
  /\ LET kept == Range(sel[1].compatible_device_types)
         listed == simctl_data.devicetypes
     IN \E i, j, k \in 1..Len(listed) :
          /\ listed[i].maxRuntimeVersion = Some(786432)
          /\ listed[i].productFamily = Some(S_iPhone)
          /\ DeviceType(listed[i], i - 1) \notin kept
          /\ listed[j].productFamily = Some(S_AppleTV)
          /\ DeviceType(listed[j], j - 1) \notin kept
          /\ listed[k].productFamily = None
          /\ listed[k].maxRuntimeVersion = None
          /\ DeviceType(listed[k], k - 1) \in kept

\* the `device` records of a catalog, each with the runtime that owns it
OwnedDevices(data) ==
  UNION { { [runtime |-> data.devices[g].runtime, device |-> data.devices[g].devices[i]] :
              i \in 1..Len(data.devices[g].devices) } : g \in 1..Len(data.devices) }

\* C10: an instance is kept iff its owning runtime is available (and of the
\* OS version asked for, when one was), the instance itself is available and
\* its deviceTypeIdentifier is that of a surviving device type; no other
\* instance is kept or returned as best instance.
C10_InstancePass ==
  pc = "discovered" =>
    LET kept == { d.device : d \in Range(sel[1].compatible_devices) }
        surviving == { t.device_type.identifier :
                         t \in Range(sel[1].compatible_device_types) }
        RuntimeOk(identifier) ==
          \E i \in 1..Len(simctl_data.runtimes) :
            /\ simctl_data.runtimes[i].identifier = identifier
            /\ simctl_data.runtimes[i].isAvailable
            /\ sim_os_version # <<>> => simctl_data.runtimes[i].version = sim_os_version
        Passes(o) ==
          /\ RuntimeOk(o.runtime)
          /\ o.device.isAvailable
          /\ o.device.deviceTypeIdentifier \in surviving
    IN /\ \A o \in OwnedDevices(simctl_data) : (o.device \in kept) <=> Passes(o)
       /\ kept \subseteq { o.device : o \in OwnedDevices(simctl_data) }
       /\ Len(sel[1].compatible_devices) = Cardinality(kept)
       /\ sel[1].best_compatible_device # None =>
            \E o \in OwnedDevices(simctl_data) :
              o.device = sel[1].best_compatible_device[1].device /\ Passes(o)

\* C10's case: with an OS-version filter given, one instance is kept, one is
\* dropped for its runtime's version, one for being unavailable itself.
C10_Witness ==
  /\ pc = "discovered"
  /\ sim_os_version = V_13_2
  /\ sel[1].best_compatible_device # None
  /\ LET kept == { d.device : d \in Range(sel[1].compatible_devices) }
     IN \E o1, o2 \in OwnedDevices(simctl_data) :
          /\ o1.runtime = "iOS-12-4" /\ o1.device.isAvailable /\ o1.device \notin kept
          /\ o2.runtime = "iOS-13-2" /\ ~o2.device.isAvailable /\ o2.device \notin kept

\* C11: each of the two results is absent exactly when its own filtered
\* sequence is empty; in particular a catalog with a surviving device type
\* and no surviving instance yields (best device type, absent).
C11_SelectorIndependence ==
  pc = "discovered" =>
    /\ sel[1].best_compatible_device_type = None
         <=> Len(sel[1].compatible_device_types) = 0
    /\ sel[1].best_compatible_device = None
         <=> Len(sel[1].compatible_devices) = 0
    /\ (Len(sel[1].compatible_device_types) > 0 /\ Len(sel[1].compatible_devices) = 0) =>
         /\ sel[1].best_compatible_device_type # None
         /\ sel[1].best_compatible_device_type[1] \in Range(sel[1].compatible_device_types)
         /\ sel[1].best_compatible_device = None

\* C11's case: the catalog lists instances, none of them survives the
\* instance pass, exactly one device type survives, and the selector returns
\* that device type and no instance.
C11_Witness ==
  /\ pc = "discovered"
  /\ OwnedDevices(simctl_data) # {}
  /\ Len(sel[1].compatible_device_types) = 1
  /\ Len(sel[1].compatible_devices) = 0
  /\ sel[1].best_compatible_device_type = Some(sel[1].compatible_device_types[1])
  /\ sel[1].best_compatible_device = None

\* C21: whenever the selector returns a best instance it returns a best
\* device type too, and the device type attached to the instance is the one
\* the instance names, survived the device-type pass and meets the family,
\* minimum-OS and name constraints; (no device type, an instance) is never
\* returned.
C21_BestInstanceHasSurvivingType ==
  (pc = "discovered" /\ sel[1].best_compatible_device # None) =>
    LET best == sel[1].best_compatible_device[1]
        attached == best.device_type
        r == attached.device_type
    IN /\ sel[1].best_compatible_device_type # None
       /\ attached \in Range(sel[1].compatible_device_types)
       /\ r.identifier = best.device.deviceTypeIdentifier
       /\ attached.simctl_list_index + 1 \in 1..Len(simctl_data.devicetypes)
       /\ simctl_data.devicetypes[attached.simctl_list_index + 1] = r
       /\ ClassifiesAs(r, S_iPhone) \/ ClassifiesAs(r, S_iPad)
       /\ \/ r.maxRuntimeVersion = None
          \/ r.maxRuntimeVersion[1] >= minimum_os_to_simctl_runtime_version(minimum_os)
       /\ sim_device = <<>> \/ Contains(CaseFold(sim_device), CaseFold(r.name))
       /\ \E o \in OwnedDevices(simctl_data) : o.device = best.device

\* C21's case: the catalog lists available instances of a device type that
\* fails the name filter and of one that meets it; the best instance is of
\* the latter, and a best device type is returned with it.
C21_Witness ==
  /\ pc = "discovered"
  /\ sim_device # <<>>
  /\ sel[1].best_compatible_device # None
  /\ sel[1].best_compatible_device_type # None
  /\ sel[1].best_compatible_device[1].device.deviceTypeIdentifier = Id_iPhone8
  /\ \E o \in OwnedDevices(simctl_data) :
       /\ o.device.isAvailable
       /\ o.runtime = "iOS-13-2"
       /\ o.device.deviceTypeIdentifier = Id_iPadPro
       /\ o.device.state = S_Booted
  /\ sel[1].best_compatible_device[1].device.state = S_Shutdown

\* C21's other case: an instance of a device type too old for the minimum OS
\* is listed as Booted, and the best instance is a Shutdown one of a
\* surviving device type.
C21_WitnessMinimumOs ==
  /\ pc = "discovered"
  /\ sim_device = <<>> /\ minimum_os = V_13_0
  /\ sel[1].best_compatible_device # None
  /\ sel[1].best_compatible_device[1].device.deviceTypeIdentifier = Id_iPhone8
  /\ sel[1].best_compatible_device[1].device.state = S_Shutdown
  /\ \E o \in OwnedDevices(simctl_data) :
       /\ o.device.isAvailable
       /\ o.runtime = "iOS-12-4"
       /\ o.device.deviceTypeIdentifier = Id_iPadPro
       /\ o.device.state = S_Booted

----------------------------------------------------------------------------
(* The ranking of device types: the selector on catalogs whose device      *)
(* types are told apart by productFamily or, without one, by identifier,   *)
(* among them identifiers that hold both "iPhone" and "iPad".              *)

\* a catalog of at most MaxDeviceTypes device types, with distinct
\* identifiers, no maxRuntimeVersion, and no device
OrderCatalog(data) ==
  \E k \in 0..MaxDeviceTypes :
    \E ids \in [1..k -> IdentifierPool \cup {Id_iPadiPhone}],
       fam \in [1..k -> {None, Some(S_iPhone), Some(S_iPad)}] :
      /\ \A i, j \in 1..k : i # j => ids[i] # ids[j]
      /\ data = [devicetypes |-> [i \in 1..k |-> DeviceTypeRecord(ids[i], fam[i], None)],
                 runtimes |-> <<Runtime("iOS-13-2", V_13_2, TRUE)>>,
                 devices |-> <<[runtime |-> "iOS-13-2", devices |-> <<>>]>>]

InitOrd ==
  /\ OrderCatalog(simctl_data)
  /\ minimum_os = V_11_0
  /\ sim_device = <<>>
  /\ sim_os_version = <<>>
  /\ sel = None
  /\ pc = "discover"
  /\ NoRun /\ NoVersions

SpecOrd == InitOrd /\ [][NextSel]_vars

\* C16: on the device types that survive the device-type pass the ranking is
\* irreflexive and transitive, and of two distinct ones exactly one ranks
\* below the other.
C16_StrictTotalOrder ==
  pc = "discovered" =>
    LET surviving == Range(sel[1].compatible_device_types)
    IN /\ \A a \in surviving : ~DeviceTypeLt(a, a)
       /\ \A a, b \in surviving :
            a # b => (DeviceTypeLt(a, b) <=> ~DeviceTypeLt(b, a))
       /\ \A a, b, c \in surviving :
            (DeviceTypeLt(a, b) /\ DeviceTypeLt(b, c)) => DeviceTypeLt(a, c)

\* C16 holds of every catalog in which no surviving device type classifies as
\* both an iPhone and an iPad.
C16_StrictTotalOrderWhenFamiliesAreUnambiguous ==
  (/\ pc = "discovered"
   /\ \A t \in Range(sel[1].compatible_device_types) : ~(is_iphone(t) /\ is_ipad(t)))
    => LET surviving == Range(sel[1].compatible_device_types)
       IN /\ \A a \in surviving : ~DeviceTypeLt(a, a)
          /\ \A a, b \in surviving :
               a # b => (DeviceTypeLt(a, b) <=> ~DeviceTypeLt(b, a))
          /\ \A a, b, c \in surviving :
               (DeviceTypeLt(a, b) /\ DeviceTypeLt(b, c)) => DeviceTypeLt(a, c)

\* Of two distinct surviving device types that both classify as an iPhone and
\* an iPad, each ranks below the other.
C16_TwoAmbiguousTypesRankBelowEachOther ==
  /\ pc = "discovered"
  /\ \E a, b \in Range(sel[1].compatible_device_types) :
       /\ a # b
       /\ DeviceTypeLt(a, b) /\ DeviceTypeLt(b, a)

----------------------------------------------------------------------------
(* The conversion alone: minimum_os_to_simctl_runtime_version on two       *)
(* version strings.                                                        *)

InitVK ==
  /\ va \in ValidVersions(MaxComponents) \cup InvalidVersions \cup LongVersions \cup {V_13_2}
  /\ vb \in ValidVersions(MaxComponents) \cup InvalidVersions \cup LongVersions \cup {V_13_2}
  /\ ka = None /\ kb = None
  /\ pc = "convert"
  /\ NoRun /\ NoSelection

Convert ==
  /\ pc = "convert"
  /\ ka' = Some(minimum_os_to_simctl_runtime_version(va))
  /\ kb' = Some(minimum_os_to_simctl_runtime_version(vb))
  /\ pc' = "converted"
  /\ UNCHANGED <<simctl_data, minimum_os, sim_device, sim_os_version, sel, log,
                 simulator_udid, error, polls, listing, va, vb>>

NextVK == Convert

SpecVK == InitVK /\ [][NextVK]_vars

\* (major, minor, micro) of a version string, a missing component read as 0
Triple(version) == [i \in 1..3 |-> ParseInt(PaddedComponents(version)[i])]

\* up to three dot-separated non-negative integer components
WellFormed(version) ==
  /\ Len(Split(version, ".")) <= 3
  /\ \A i \in 1..3 : Triple(version)[i] # ValueError

LexLess(x, y) ==
  \/ x[1] < y[1]
  \/ x[1] = y[1] /\ x[2] < y[2]
  \/ x[1] = y[1] /\ x[2] = y[2] /\ x[3] < y[3]

\* C8: for all version strings a and b of up to three non-negative integer
\* components, VersionKey(a) < VersionKey(b) iff a's (major, minor, micro) is
\* lexicographically below b's.
C8_OrderPreserving ==
  (pc = "converted" /\ WellFormed(va) /\ WellFormed(vb)) =>
    (ka[1] < kb[1] <=> LexLess(Triple(va), Triple(vb)))

\* C8 as amended: the same, for version strings whose components are all at
\* most 255.
C8_OrderPreservingUpTo255 ==
  (/\ pc = "converted" /\ WellFormed(va) /\ WellFormed(vb)
   /\ \A i \in 1..3 : Triple(va)[i] <= 255 /\ Triple(vb)[i] <= 255) =>
    (ka[1] < kb[1] <=> LexLess(Triple(va), Triple(vb)))

\* C8's case: a two-component string below a three-component string that
\* differs from it in the micro version only, both converted.
C8_Witness ==
  /\ pc = "converted" /\ WellFormed(va) /\ WellFormed(vb)
  /\ Len(Split(va, ".")) = 2 /\ Len(Split(vb, ".")) = 3
  /\ Triple(va)[1] = 7 /\ Triple(vb)[1] = 7
  /\ Triple(va)[2] = 255 /\ Triple(vb)[2] = 255
  /\ Triple(vb)[3] = 7
  /\ ka[1] < kb[1]

\* dot-separated non-negative integer components, of any number
Numeric(version) ==
  \A i \in 1..Len(Split(version, ".")) : ParseInt(Split(version, ".")[i]) # ValueError

\* ((major mod 256) << 16) | ((minor mod 256) << 8) | (micro mod 256)
Masked(t) == (t[1] % 256) * 65536 + (t[2] % 256) * 256 + (t[3] % 256)

\* C17: for every version string of non-negative integer components the
\* result is the three components, each taken mod 256, packed
\* most-significant-first; it lies in [0, 2^24), and "13.2" and "13.2.0" give
\* the same result.
C17_MaskedEncoding ==
  pc = "converted" =>
    /\ Numeric(va) => (ka[1] = Masked(Triple(va)) /\ ka[1] >= 0 /\ ka[1] < 16777216)
    /\ Numeric(vb) => (kb[1] = Masked(Triple(vb)) /\ kb[1] >= 0 /\ kb[1] < 16777216)
    /\ (va = V_13_2 /\ vb = V_13_2_0) => ka = kb

\* C17 as amended: the same without the masking, for version strings whose
\* first three components are all at most 255; strings with the same first
\* three components, a missing one read as 0, give the same result.
C17_EncodingUpTo255 ==
  pc = "converted" =>
    /\ (Numeric(va) /\ \A i \in 1..3 : Triple(va)[i] <= 255) =>
         /\ ka[1] = Triple(va)[1] * 65536 + Triple(va)[2] * 256 + Triple(va)[3]
         /\ ka[1] >= 0 /\ ka[1] < 16777216
    /\ (Numeric(vb) /\ \A i \in 1..3 : Triple(vb)[i] <= 255) =>
         /\ kb[1] = Triple(vb)[1] * 65536 + Triple(vb)[2] * 256 + Triple(vb)[3]
         /\ kb[1] >= 0 /\ kb[1] < 16777216
    /\ (Numeric(va) /\ Numeric(vb) /\ Triple(va) = Triple(vb)) => ka = kb
    /\ (va = V_13_2 /\ vb = V_13_2_0) => ka = kb

\* C17's case: "13.2" and "13.2.0.9" converted, both to 0x0D0200.
C17_Witness ==
  /\ pc = "converted"
  /\ va = V_13_2 /\ vb = V_13_2_0_9
  /\ ka = Some(852480) /\ kb = Some(852480)

\* C17's other case: "13.2" and "13.2.0" converted to the same result.
C17_WitnessPadded ==
  /\ pc = "converted"
  /\ va = V_13_2 /\ vb = V_13_2_0
  /\ ka = kb /\ ka # Some(ValueError)

----------------------------------------------------------------------------
(* A whole run of the script: main(), ios_simulator(), the persistent      *)
(* lifecycle, boot_simulator() and run_app_in_simulator(). Every external  *)
(* command is one step; its exit code and output are chosen by the         *)
(* environment. `log` keeps each command issued, `error` the exception     *)
(* that ended the run.                                                     *)

\* range(0, 60) in wait_for_sim_to_boot
BootPolls == 60

Command(cmd, args, returncode, stdout) ==
  [cmd |-> cmd, args |-> args, returncode |-> returncode, stdout |-> stdout]

\* subprocess.CalledProcessError, raised by check=True on a non-zero exit
CalledProcessError(cmd) == [type |-> "CalledProcessError", cmd |-> cmd, detail |-> <<>>]

\* Exception(message % detail)
Exception(message, detail) == [type |-> "Exception", cmd |-> message, detail |-> detail]

KeyboardInterrupt == [type |-> "KeyboardInterrupt", cmd |-> "", detail |-> <<>>]

\* how a command ends: exit code 0, a non-zero exit code, or, below zero, cut
\* short by Ctrl-C, which raises KeyboardInterrupt in the script
ExitCodes == {0, 1, -2}

\* what subprocess.run(..., check=True) raises for an exit code other than 0
Failure(cmd, rc) == IF rc < 0 THEN KeyboardInterrupt ELSE CalledProcessError(cmd)

\* one line of `simctl list devices`
ListingLine(name, udid, state) ==
  name \o <<" ", "(">> \o udid \o <<")", " ", "(">> \o state \o <<")">>

S_TestDevice == <<"T", "e", "s", "t">>
S_OtherUdid == <<"U", "9", "9">>

\* what `simctl list devices` may print while `udid` is awaited
Listings(udid) ==
  { ListingLine(S_TestDevice, udid, S_Shutdown),
    ListingLine(S_TestDevice, S_OtherUdid, S_Booted) \o <<"\n">>
      \o ListingLine(S_TestDevice, udid, S_Shutdown),
    ListingLine(S_TestDevice, S_OtherUdid, S_Shutdown) \o <<"\n">>
      \o ListingLine(S_TestDevice, udid, S_Booted) }

\* a plausible slip: "Booted" anywhere in the output counts, whatever the line
ReportsBootedAnyLine(stdout, udid) ==
  Contains(udid, stdout) /\ Contains(S_Booted, stdout)

\* the scan of wait_for_sim_to_boot: some line has the udid and "Booted"
ReportsBooted(stdout, udid) ==
  \E i \in 1..Len(Split(stdout, "\n")) :
    /\ Contains(udid, Split(stdout, "\n")[i])
    /\ Contains(S_Booted, Split(stdout, "\n")[i])

\* what `simctl create` may print: the new udid and trailing white space
CreateOutputs ==
  { <<"N", "1", "\n">>, <<"N", "2">>, <<" ", "N", " ", "3", " ", "\n", "\t">> }

\* a catalog of three device types and at most MaxRunDevices devices
RunCatalog(data) ==
  \E n \in 0..MaxRunDevices :
    \E d \in [1..n -> [state : {S_Booted, S_Shutdown, S_Booting},
                       deviceTypeIdentifier : {Id_iPhone8, Id_iPadPro},
                       isAvailable : {TRUE}]] :
      data = [devicetypes |-> <<DeviceTypeRecord(Id_iPhone8, Some(S_iPhone), None),
                                DeviceTypeRecord(Id_iPadPro, Some(S_iPad), Some(786432)),
                                DeviceTypeRecord(Id_AppleTV, Some(S_AppleTV), None)>>,
              runtimes |-> <<Runtime("iOS-13-2", V_13_2, TRUE)>>,
              devices |-> <<[runtime |-> "iOS-13-2",
                             devices |-> [i \in 1..n |-> DeviceRecord(d[i], 1, i)]]>>]

S_IPAD == <<"I", "P", "A", "D">>

\* a plausible slip: the message is built from the case-folded name that
\* discover_best_compatible_simulator matches with
SelectionErrorFolded(min_os, device_name, os_version) ==
  Exception("Could not find or create a simulator",
            <<min_os, CaseFold(device_name), os_version>>)

\* the exception persistent_ios_simulator ends with
SelectionError(min_os, device_name, os_version) ==
  Exception("Could not find or create a simulator", <<min_os, device_name, os_version>>)

Init ==
  /\ RunCatalog(simctl_data)
  /\ minimum_os \in {V_11_0, V_13_0}
  /\ sim_device \in {<<>>, S_IPAD}
  /\ sim_os_version \in SimOsVersionPool
  /\ sel = None
  /\ pc = "xcode_select"
  /\ NoRun /\ NoVersions

\* an exception unwinds to the top level: nothing catches it on the way
Raise(exception) ==
  /\ error' = Some(exception)
  /\ pc' = "exit"

Issue(command) == log' = Append(log, command)

\* main: subprocess.run(["xcode-select", "-p"], check=True)
XcodeSelect ==
  /\ pc = "xcode_select"
  /\ \E rc \in ExitCodes :
       /\ Issue(Command("xcode-select", <<>>, rc, <<>>))
       /\ IF rc # 0 THEN Raise(Failure("xcode-select", rc))
          ELSE pc' = "list" /\ UNCHANGED error
  /\ UNCHANGED <<simctl_data, minimum_os, sim_device, sim_os_version, sel,
                 simulator_udid, polls, listing, va, vb, ka, kb>>

\* persistent_ios_simulator up to its first command after `simctl list -j`:
\* the selection and the choice between boot, reuse, create and failure
ListAndSelect ==
  /\ pc = "list"
  /\ \E rc \in ExitCodes :
       /\ Issue(Command("list", <<>>, rc, <<>>))
       /\ IF rc # 0
          THEN /\ Raise(Failure("list", rc))
               /\ UNCHANGED <<sel, simulator_udid>>
          ELSE LET found == discover_best_compatible_simulator(
                              simctl_data, minimum_os, sim_device, sim_os_version)
               IN /\ sel' = Some(found)
                  /\ IF found.best_compatible_device # None
                     THEN IF is_shutdown(found.best_compatible_device[1])
                          THEN /\ pc' = "boot"
                               /\ UNCHANGED <<simulator_udid, error>>
                          ELSE /\ simulator_udid'
                                    = Some(found.best_compatible_device[1].device.udid)
                               /\ pc' = "open"
                               /\ UNCHANGED error
                     ELSE IF found.best_compatible_device_type # None
                          THEN /\ pc' = "create"
                               /\ UNCHANGED <<simulator_udid, error>>
                          ELSE /\ Raise(SelectionError(minimum_os, sim_device, sim_os_version))
                               /\ UNCHANGED simulator_udid
  /\ UNCHANGED <<simctl_data, minimum_os, sim_device, sim_os_version,
                 polls, listing, va, vb, ka, kb>>

\* a plausible slip: `return udid` is missing after the boot, and the
\* function goes on to create a simulator of the best device type
BootWithoutReturn ==
  /\ pc = "boot"
  /\ LET udid == sel[1].best_compatible_device[1].device.udid
     IN \E rc \in ExitCodes :
          /\ Issue(Command("boot", <<udid>>, rc, <<>>))
          /\ IF rc # 0
             THEN Raise(Failure("boot", rc))
             ELSE pc' = "create" /\ UNCHANGED error
  /\ UNCHANGED <<simctl_data, minimum_os, sim_device, sim_os_version, sel,
                 simulator_udid, polls, listing, va, vb, ka, kb>>

\* subprocess.run([simctl_path, "boot", udid], check=True); return udid
Boot ==
  /\ pc = "boot"
  /\ LET udid == sel[1].best_compatible_device[1].device.udid
     IN \E rc \in ExitCodes :
          /\ Issue(Command("boot", <<udid>>, rc, <<>>))
          /\ IF rc # 0
             THEN Raise(Failure("boot", rc)) /\ UNCHANGED simulator_udid
             ELSE /\ simulator_udid' = Some(udid)
                  /\ pc' = "open"
                  /\ UNCHANGED error
  /\ UNCHANGED <<simctl_data, minimum_os, sim_device, sim_os_version, sel,
                 polls, listing, va, vb, ka, kb>>

\* subprocess.run([simctl_path, "create", device_name, device_id], check=True);
\* return create_result.stdout.rstrip()
Create ==
  /\ pc = "create"
  /\ LET best == sel[1].best_compatible_device_type[1].device_type
     IN \E rc \in ExitCodes, stdout \in CreateOutputs :
          IF rc # 0
          THEN /\ Issue(Command("create", <<best.name, best.identifier>>, rc, <<>>))
               /\ Raise(Failure("create", rc))
               /\ UNCHANGED simulator_udid
          ELSE /\ Issue(Command("create", <<best.name, best.identifier>>, rc, stdout))
               /\ simulator_udid' = Some(RStrip(stdout))
               /\ pc' = "open"
               /\ UNCHANGED error
  /\ UNCHANGED <<simctl_data, minimum_os, sim_device, sim_os_version, sel,
                 polls, listing, va, vb, ka, kb>>

\* a plausible slip: a failed launch of the Simulator application is tried
\* once more
OpenSimulatorRetried ==
  /\ pc = "open"
  /\ \E rc \in ExitCodes :
       /\ Issue(Command("open", <<simulator_udid[1]>>, rc, <<>>))
       /\ IF rc < 0 \/ (rc # 0 /\ \E i \in 1..Len(log) : log[i].cmd = "open")
          THEN Raise(Failure("open", rc))
          ELSE IF rc # 0 THEN UNCHANGED <<pc, error>>
               ELSE pc' = "wait" /\ UNCHANGED error
  /\ UNCHANGED <<simctl_data, minimum_os, sim_device, sim_os_version, sel,
                 simulator_udid, polls, listing, va, vb, ka, kb>>

\* boot_simulator: subprocess.run(["open", "-a", simulator_path, "--args",
\* "-CurrentDeviceUDID", udid], check=True)
OpenSimulator ==
  /\ pc = "open"
  /\ \E rc \in ExitCodes :
       /\ Issue(Command("open", <<simulator_udid[1]>>, rc, <<>>))
       /\ IF rc # 0 THEN Raise(Failure("open", rc))
          ELSE pc' = "wait" /\ UNCHANGED error
  /\ UNCHANGED <<simctl_data, minimum_os, sim_device, sim_os_version, sel,
                 simulator_udid, polls, listing, va, vb, ka, kb>>

\* a plausible slip: range(0, 61), one poll too many
PollsLeftOffByOne(made) == made < BootPolls + 1

\* the loop test of wait_for_sim_to_boot, after `made` turns
PollsLeft(made) == made < BootPolls

\* one turn of the loop of wait_for_sim_to_boot: `simctl list devices`, the
\* scan of its lines, the sleep; after the last turn boot_simulator raises
Poll ==
  /\ pc = "wait"
  /\ PollsLeft(polls)
  /\ polls' = polls + 1
  /\ \E rc \in ExitCodes, stdout \in Listings(simulator_udid[1]) :
       IF rc # 0
       THEN /\ Issue(Command("list devices", <<>>, rc, <<>>))
            /\ Raise(Failure("list devices", rc))
            /\ UNCHANGED listing
       ELSE /\ Issue(Command("list devices", <<>>, rc, <<>>))
            /\ listing' = stdout
            /\ IF ReportsBooted(stdout, simulator_udid[1])
               THEN pc' = "install" /\ UNCHANGED error
               ELSE IF PollsLeft(polls + 1)
                    THEN pc' = "wait" /\ UNCHANGED error
                    ELSE Raise(Exception("Failed to launch simulator with UDID",
                                         <<simulator_udid[1]>>))
  /\ UNCHANGED <<simctl_data, minimum_os, sim_device, sim_os_version, sel,
                 simulator_udid, va, vb, ka, kb>>

\* a plausible slip: install is run with check=False, as launch is
InstallUnchecked ==
  /\ pc = "install"
  /\ \E rc \in ExitCodes :
       /\ Issue(Command("install", <<simulator_udid[1]>>, rc, <<>>))
       /\ IF rc < 0 THEN Raise(KeyboardInterrupt)
          ELSE pc' = "launch" /\ UNCHANGED error
  /\ UNCHANGED <<simctl_data, minimum_os, sim_device, sim_os_version, sel,
                 simulator_udid, polls, listing, va, vb, ka, kb>>

\* run_app_in_simulator: subprocess.run([simctl_path, "install", udid, app_path],
\* check=True)
Install ==
  /\ pc = "install"
  /\ \E rc \in ExitCodes :
       /\ Issue(Command("install", <<simulator_udid[1]>>, rc, <<>>))
       /\ IF rc # 0 THEN Raise(Failure("install", rc))
          ELSE pc' = "launch" /\ UNCHANGED error
  /\ UNCHANGED <<simctl_data, minimum_os, sim_device, sim_os_version, sel,
                 simulator_udid, polls, listing, va, vb, ka, kb>>

\* a plausible slip: the simulator is shut down once the application is done,
\* as the temporary simulator is
LaunchThenShutdown ==
  /\ pc = "launch"
  /\ \E rc \in ExitCodes :
       /\ log' = log \o <<Command("launch", <<simulator_udid[1]>>, rc, <<>>),
                          Command("shutdown", <<simulator_udid[1]>>, 0, <<>>)>>
       /\ IF rc < 0 THEN Raise(KeyboardInterrupt)
          ELSE pc' = "exit" /\ UNCHANGED error
  /\ UNCHANGED <<simctl_data, minimum_os, sim_device, sim_os_version, sel,
                 simulator_udid, polls, listing, va, vb, ka, kb>>

\* run_app_in_simulator: subprocess.run([simctl_path, "launch", "--console-pty",
\* udid, bundle_id], check=False), then the scope of ios_simulator closes
Launch ==
  /\ pc = "launch"
  /\ \E rc \in ExitCodes :
       /\ Issue(Command("launch", <<simulator_udid[1]>>, rc, <<>>))
       /\ IF rc < 0 THEN Raise(KeyboardInterrupt)
          ELSE pc' = "exit" /\ UNCHANGED error
  /\ UNCHANGED <<simctl_data, minimum_os, sim_device, sim_os_version, sel,
                 simulator_udid, polls, listing, va, vb, ka, kb>>

Next ==
  \/ XcodeSelect
  \/ ListAndSelect
  \/ Boot
  \/ Create
  \/ OpenSimulator
  \/ Poll
  \/ Install
  \/ Launch

Spec == Init /\ [][Next]_vars

----------------------------------------------------------------------------
(* Claims about a whole run, checked under Spec.                           *)

\* the positions in the log of the commands named cmd
Issued(cmd) == { i \in 1..Len(log) : log[i].cmd = cmd }

BootTimeout(udid) == Exception("Failed to launch simulator with UDID", <<udid>>)

\* C2: when no poll reports the awaited udid as Booted, the wait ends in
\* failure after exactly 60 listing polls, never 59, never 61, and
\* boot_simulator raises.
C2_BootWaitFailsAfterExactly60Polls ==
  /\ polls <= 60
  /\ Cardinality(Issued("list devices")) = polls
  /\ pc = "wait" => polls < 60
  /\ (simulator_udid # None /\ error = Some(BootTimeout(simulator_udid[1]))) =>
       /\ polls = 60
       /\ ~ReportsBooted(listing, simulator_udid[1])
       /\ Issued("install") = {} /\ Issued("launch") = {}
  /\ (/\ polls = 60
      /\ log[Len(log)].cmd = "list devices" /\ log[Len(log)].returncode = 0
      /\ ~ReportsBooted(listing, simulator_udid[1])) =>
       /\ pc = "exit"
       /\ error = Some(BootTimeout(simulator_udid[1]))

\* C2's case: sixty polls were made, the last one showed another simulator
\* Booted and the awaited one Shutdown, and the run ended with the exception
\* of boot_simulator.
C2_Witness ==
  /\ pc = "exit"
  /\ polls = 60
  /\ Cardinality(Issued("list devices")) = 60
  /\ Contains(S_Booted, listing)
  /\ error = Some(BootTimeout(simulator_udid[1]))

\* the instance and the device type the selector returned
BestDevice == sel[1].best_compatible_device
BestDeviceType == sel[1].best_compatible_device_type

\* the persistent lifecycle has returned or raised
PastLifecycle == sel # None /\ pc \notin {"boot", "create"}

\* C3: when the selector returns an instance, a boot command for its udid is
\* issued exactly once if it is Shutdown and none if it is Booted; no create
\* command is issued, and the udid returned is the instance's.
C3_BootOnlyWhenShutdown ==
  (sel # None /\ BestDevice # None) =>
    LET udid == BestDevice[1].device.udid
    IN /\ Issued("create") = {}
       /\ \A i \in Issued("boot") : log[i].args = <<udid>>
       /\ Cardinality(Issued("boot")) <= 1
       /\ BestDevice[1].device.state = S_Booted => Issued("boot") = {}
       /\ (BestDevice[1].device.state = S_Shutdown /\ PastLifecycle) =>
            Cardinality(Issued("boot")) = 1
       /\ simulator_udid # None => simulator_udid = Some(udid)
       /\ (PastLifecycle /\ error = None) => simulator_udid = Some(udid)

\* C3's case: a Shutdown instance was selected, booted once, and its udid
\* was handed on to the launch of the application.
C3_Witness ==
  /\ pc = "exit" /\ error = None
  /\ BestDevice # None /\ BestDevice[1].device.state = S_Shutdown
  /\ Cardinality(Issued("boot")) = 1
  /\ simulator_udid = Some(BestDevice[1].device.udid)

\* C3's other case: a Booted instance was selected and the run went through
\* without any boot command.
C3_WitnessBooted ==
  /\ pc = "exit" /\ error = None
  /\ BestDevice # None /\ BestDevice[1].device.state = S_Booted
  /\ Issued("boot") = {}

\* t is s without its trailing white space
IsRightStripped(t, s) ==
  /\ Len(t) <= Len(s)
  /\ SubSeq(s, 1, Len(t)) = t
  /\ \A i \in (Len(t) + 1)..Len(s) : IsSpace(s[i])
  /\ t # <<>> => ~IsSpace(t[Len(t)])

\* C4: when the selector returns a device type and no instance, exactly one
\* create command is issued, with that device type's name and identifier, no
\* boot command is issued, and the udid handed on is the output of the create
\* command without its trailing white space.
C4_CreateFromBestDeviceType ==
  (sel # None /\ BestDevice = None /\ BestDeviceType # None) =>
    /\ Issued("boot") = {}
    /\ Cardinality(Issued("create")) <= 1
    /\ PastLifecycle => Cardinality(Issued("create")) = 1
    /\ \A i \in Issued("create") :
         /\ log[i].args = <<BestDeviceType[1].device_type.name,
                            BestDeviceType[1].device_type.identifier>>
         /\ simulator_udid # None => IsRightStripped(simulator_udid[1], log[i].stdout)
         /\ (log[i].returncode = 0) <=> (simulator_udid # None)

\* C4's case: a simulator was created, its udid printed with white space
\* around it, and the run went on to launch the application in it.
C4_Witness ==
  /\ pc = "exit" /\ error = None
  /\ BestDevice = None /\ BestDeviceType # None
  /\ \E i \in Issued("create") :
       /\ Len(log[i].stdout) > Len(simulator_udid[1]) + 1
       /\ IsSpace(log[i].stdout[1])
  /\ Issued("launch") # {}

\* C5: when the selector returns neither a device type nor an instance, the
\* run fails with a selection error carrying the minimum OS, the device name
\* filter and the OS version filter, and no boot, create, simulator launch,
\* install or launch command is issued.
C5_SelectionError ==
  (sel # None /\ BestDevice = None /\ BestDeviceType = None) =>
    /\ pc = "exit"
    /\ error # None
    /\ error[1].type = "Exception"
    /\ error[1].cmd = "Could not find or create a simulator"
    /\ error[1].detail = <<minimum_os, sim_device, sim_os_version>>
    /\ simulator_udid = None
    /\ \A i \in 1..Len(log) : log[i].cmd \in {"xcode-select", "list"}

\* C5's case: the name filter matches only a device type that is too old for
\* the minimum OS, and the run ended with the selection error.
C5_Witness ==
  /\ pc = "exit"
  /\ sel # None /\ BestDevice = None /\ BestDeviceType = None
  /\ sim_device # <<>> /\ sim_os_version # <<>>
  /\ error # None /\ error[1].type = "Exception"

\* C12: a run given both a device name and an OS version creates a temporary
\* simulator and, when done, has shut it down and deleted it; a run given at
\* most one of them issues no shutdown and no delete command.
C12_ModeChoice ==
  (pc = "exit" /\ error = None) =>
    IF sim_device # <<>> /\ sim_os_version # <<>>
    THEN /\ \E i \in Issued("create") : log[i].args[1] = S_TestDevice
         /\ Issued("shutdown") # {}
         /\ Issued("delete") # {}
    ELSE Issued("shutdown") = {} /\ Issued("delete") = {}

\* C13: a run through the persistent lifecycle never issues a shutdown
\* command, a delete command or a kill of the running simulators, whether it
\* completes, fails or is interrupted.
C13_PersistentLeavesSimulatorAlone ==
  \A i \in 1..Len(log) :
    /\ log[i].cmd \notin {"shutdown", "delete", "pkill"}
    /\ log[i].cmd \in {"xcode-select", "list", "boot", "create", "open",
                       "list devices", "install", "launch"}

\* C13's case: a simulator was booted by the run, the application was
\* launched in it, and the run was interrupted during the launch.
C13_Witness ==
  /\ pc = "exit"
  /\ error = Some(KeyboardInterrupt)
  /\ \E i \in Issued("boot") : log[i].returncode = 0
  /\ log[Len(log)].cmd = "launch" /\ log[Len(log)].returncode < 0

\* C13's other cases: a run that failed after it had created a simulator,
\* and a run that completed.
C13_WitnessFailed ==
  /\ pc = "exit"
  /\ error = Some(CalledProcessError("install"))
  /\ \E i \in Issued("create") : log[i].returncode = 0

\* the line of `simctl list devices` that shows udid as Booted is in stdout
ShowsBooted(stdout, udid) == Contains(ListingLine(S_TestDevice, udid, S_Booted), stdout)

\* C14: a boot or create command comes before the launch of the Simulator
\* application, which comes before the first listing poll; install is issued
\* only right after a poll that showed the simulator Booted; launch is issued
\* only right after an install that exited 0.
C14_CommandOrdering ==
  /\ \A i \in Issued("boot") \cup Issued("create") :
       /\ log[i].returncode # 0 => Issued("open") = {}
       /\ \A j \in Issued("open") : i < j
  /\ \A i \in Issued("open") :
       /\ log[i].returncode # 0 => Issued("list devices") = {}
       /\ \A j \in Issued("list devices") : i < j
  /\ Issued("list devices") # {} => Issued("open") # {}
  /\ \A i \in Issued("install") :
       /\ i > 1
       /\ log[i - 1].cmd = "list devices" /\ log[i - 1].returncode = 0
       /\ ShowsBooted(listing, simulator_udid[1])
  /\ \A i \in Issued("launch") :
       /\ i > 1
       /\ log[i - 1].cmd = "install" /\ log[i - 1].returncode = 0
  /\ Cardinality(Issued("install")) <= 1
  /\ Cardinality(Issued("launch")) <= 1

\* C14's case: a run that booted a simulator, opened the Simulator
\* application, polled more than once, installed and launched.
C14_Witness ==
  /\ pc = "exit" /\ error = None
  /\ Issued("boot") # {}
  /\ polls > 1
  /\ Issued("install") # {} /\ Issued("launch") # {}

\* the steps of a run that must succeed
RequiredCommands ==
  {"xcode-select", "list", "boot", "create", "open", "list devices", "install"}

\* C18: once a required command has failed or been interrupted, or the boot
\* wait has timed out, the run is over: the failed command is the last one
\* issued, no command is issued twice but the listing poll, and nothing is
\* enabled any more; a launch command that exits non-zero ends the run
\* without an error.
C18_FailStop ==
  /\ \A i \in 1..(Len(log) - 1) : log[i].returncode = 0
  /\ \A c \in (RequiredCommands \cup {"launch"}) \ {"list devices"} :
       Cardinality(Issued(c)) <= 1
  /\ \A i \in 1..Len(log) :
       (log[i].cmd \in RequiredCommands /\ log[i].returncode # 0) =>
         /\ i = Len(log)
         /\ pc = "exit"
         /\ error = Some(IF log[i].returncode < 0 THEN KeyboardInterrupt
                         ELSE CalledProcessError(log[i].cmd))
  /\ (error # None /\ error[1].type = "Exception") =>
       /\ pc = "exit"
       /\ log[Len(log)].cmd \in {"list", "list devices"}
       /\ Issued("install") = {} /\ Issued("launch") = {}
  /\ error # None => pc = "exit"
  /\ pc = "exit" => ~ENABLED Next
  /\ \A i \in Issued("launch") :
       /\ pc = "exit"
       /\ log[i].returncode > 0 => error = None

\* C18's case: install exited non-zero after a successful boot wait, and the
\* run ended there with the error of install.
C18_Witness ==
  /\ pc = "exit"
  /\ log[Len(log)].cmd = "install" /\ log[Len(log)].returncode = 1
  /\ error = Some(CalledProcessError("install"))
  /\ Issued("launch") = {}

\* C18's other case: the application exited non-zero and the run ended
\* without an error.
C18_WitnessLaunchTolerated ==
  /\ pc = "exit"
  /\ log[Len(log)].cmd = "launch" /\ log[Len(log)].returncode = 1
  /\ error = None

\* C19: a listing poll whose output shows the awaited udid as Booted ends the
\* wait in success at once, after as many polls as were made so far and at
\* most 60; a poll that does not show it, among them one that shows another
\* udid as Booted, never does; and no listing poll is issued once the wait is
\* over.
C19_BootWaitEarlySuccess ==
  /\ [](pc \in {"install", "launch"} =>
          /\ ShowsBooted(listing, simulator_udid[1])
          /\ polls = Cardinality(Issued("list devices"))
          /\ polls >= 1 /\ polls <= 60
          /\ log[Len(log) - (IF pc = "install" THEN 0 ELSE 1)].cmd = "list devices")
  /\ [][ /\ pc = "wait" =>
              /\ polls' = polls + 1
              /\ log' = Append(log, log'[Len(log')])
              /\ log'[Len(log')].cmd = "list devices"
              /\ log'[Len(log')].returncode = 0 =>
                   /\ listing' \in Listings(simulator_udid[1])
                   /\ ShowsBooted(listing', simulator_udid[1]) => pc' = "install"
                   /\ ~ShowsBooted(listing', simulator_udid[1]) => pc' \in {"wait", "exit"}
              /\ pc' = "install" => log'[Len(log')].returncode = 0
         /\ pc # "wait" =>
              /\ polls' = polls
              /\ \A i \in (Len(log) + 1)..Len(log') : log'[i].cmd # "list devices"
       ]_vars

\* C19's case: the third poll was the first to show the awaited udid as
\* Booted, and the wait ended in success after three polls.
C19_Witness ==
  /\ pc = "install"
  /\ polls = 3
  /\ Cardinality(Issued("list devices")) = 3
  /\ ShowsBooted(listing, simulator_udid[1])

\* C19's other case: a poll showed another udid as Booted and the awaited
\* one as Shutdown, and the wait went on.
C19_WitnessOtherBooted ==
  /\ pc = "wait"
  /\ polls = 2
  /\ Contains(ListingLine(S_TestDevice, S_OtherUdid, S_Booted), listing)
  /\ ~ShowsBooted(listing, simulator_udid[1])

\* the persistent lifecycle has raised: the listing, the boot or the create
\* command failed, or nothing compatible was found
LifecycleFailed ==
  \/ \E i \in Issued("xcode-select") \cup Issued("list") \cup Issued("boot")
               \cup Issued("create") : log[i].returncode # 0
  \/ sel # None /\ BestDevice = None /\ BestDeviceType = None

\* C20: a run issues at most one boot or create command in all; when the
\* lifecycle succeeds one udid is handed on, the same to every later command,
\* and when it fails none is.
C20_AtMostOneHandle ==
  /\ [](/\ Cardinality(Issued("boot")) + Cardinality(Issued("create")) <= 1
        /\ LifecycleFailed =>
             /\ simulator_udid = None
             /\ pc = "exit"
             /\ Issued("open") = {} /\ Issued("install") = {} /\ Issued("launch") = {}
        /\ (PastLifecycle /\ ~LifecycleFailed) => simulator_udid # None
        /\ simulator_udid # None =>
             /\ PastLifecycle /\ ~LifecycleFailed
             /\ \A i \in Issued("open") \cup Issued("install") \cup Issued("launch") :
                  log[i].args = <<simulator_udid[1]>>
             /\ \/ /\ BestDevice # None
                   /\ simulator_udid[1] = BestDevice[1].device.udid
                \/ /\ BestDevice = None
                   /\ \E i \in Issued("create") :
                        IsRightStripped(simulator_udid[1], log[i].stdout))
  /\ [][simulator_udid # None => simulator_udid' = simulator_udid]_vars

\* C20's case: the selected simulator was booted by the one boot command of
\* the run, no create command was issued, and its udid was handed on.
C20_Witness ==
  /\ pc = "open"
  /\ Cardinality(Issued("boot")) = 1 /\ Issued("create") = {}
  /\ simulator_udid = Some(BestDevice[1].device.udid)

\* C20's other case: the create command failed and no udid was handed on.
C20_WitnessFailed ==
  /\ pc = "exit"
  /\ \E i \in Issued("create") : log[i].returncode = 1
  /\ Issued("boot") = {}
  /\ simulator_udid = None
  /\ error = Some(CalledProcessError("create"))

----------------------------------------------------------------------------
(* temporary_ios_simulator as a context manager around a scoped unit of    *)
(* work: create, pkill, yield, and shutdown and delete in the finally      *)
(* block. The work runs some commands and returns, raises or is            *)
(* interrupted. Ctrl-C is taken to arrive before the finally block is      *)
(* entered; the two commands of the block end with an exit code.           *)

S_RuntimePrefix ==
  <<"c", "o", "m", ".", "a", "p", "p", "l", "e", ".", "C", "o", "r", "e", "S", "i",
    "m", "u", "l", "a", "t", "o", "r", ".", "S", "i", "m", "R", "u", "n", "t", "i",
    "m", "e", ".", "i", "O", "S", "-">>

\* str.replace(old, new) for one-character strings
Replace(s, old, new) == [i \in 1..Len(s) |-> IF s[i] = old THEN new ELSE s[i]]

\* the runtime identifier handed to `simctl create`
RuntimeIdentifier(version) == S_RuntimePrefix \o Replace(version, ".", "-")

\* the local `udid` of temporary_ios_simulator, once create has succeeded
CreatedUdid == RStrip(log[1].stdout)

TeardownExitCodes == {0, 1}

InitEph ==
  /\ sim_device \in {NameOf(Id_iPhone8), NameOf(Id_iPadPro)}
  /\ sim_os_version \in {V_13_2, V_12_4}
  /\ simctl_data = EmptyCatalog /\ minimum_os = <<>> /\ sel = None
  /\ pc = "tmp_create"
  /\ NoRun /\ NoVersions

\* subprocess.run([simctl_path, "create", "TestDevice", device, runtime],
\* check=True), before the try block
TmpCreate ==
  /\ pc = "tmp_create"
  /\ \E rc \in ExitCodes, stdout \in CreateOutputs :
       LET args == <<S_TestDevice, sim_device, RuntimeIdentifier(sim_os_version)>>
       IN IF rc # 0
          THEN /\ Issue(Command("create", args, rc, <<>>))
               /\ Raise(Failure("create", rc))
          ELSE /\ Issue(Command("create", args, rc, stdout))
               /\ pc' = "pkill"
               /\ UNCHANGED error
  /\ UNCHANGED <<simctl_data, minimum_os, sim_device, sim_os_version, sel,
                 simulator_udid, polls, listing, va, vb, ka, kb>>

\* subprocess.run(["pkill", "Simulator"], check=False); yield udid
Pkill ==
  /\ pc = "pkill"
  /\ \E rc \in ExitCodes :
       /\ Issue(Command("pkill", <<>>, rc, <<>>))
       /\ IF rc < 0
          THEN /\ error' = Some(KeyboardInterrupt)
               /\ pc' = "shutdown"
               /\ UNCHANGED simulator_udid
          ELSE /\ simulator_udid' = Some(CreatedUdid)
               /\ pc' = "active"
               /\ UNCHANGED error
  /\ UNCHANGED <<simctl_data, minimum_os, sim_device, sim_os_version, sel,
                 polls, listing, va, vb, ka, kb>>

\* the body of the with statement runs a command that must succeed
WorkCommand ==
  /\ pc = "active"
  /\ Cardinality({ i \in 1..Len(log) : log[i].cmd = "work" }) < MaxWorkSteps
  /\ \E rc \in ExitCodes :
       /\ Issue(Command("work", <<simulator_udid[1]>>, rc, <<>>))
       /\ IF rc = 0 THEN UNCHANGED <<pc, error>>
          ELSE error' = Some(Failure("work", rc)) /\ pc' = "shutdown"
  /\ UNCHANGED <<simctl_data, minimum_os, sim_device, sim_os_version, sel,
                 simulator_udid, polls, listing, va, vb, ka, kb>>

\* a plausible slip: no finally block, an exception of the body leaves at once
WorkRaisesWithoutFinally ==
  /\ pc = "active"
  /\ Raise(Exception("work failed", <<>>))
  /\ UNCHANGED <<simctl_data, minimum_os, sim_device, sim_os_version, sel, log,
                 simulator_udid, polls, listing, va, vb, ka, kb>>

\* the body of the with statement raises: the exception is thrown into the
\* generator at its yield, and the finally block runs
WorkRaises ==
  /\ pc = "active"
  /\ error' = Some(Exception("work failed", <<>>))
  /\ pc' = "shutdown"
  /\ UNCHANGED <<simctl_data, minimum_os, sim_device, sim_os_version, sel, log,
                 simulator_udid, polls, listing, va, vb, ka, kb>>

\* the body of the with statement ends: the generator resumes after its yield
WorkReturns ==
  /\ pc = "active"
  /\ pc' = "shutdown"
  /\ UNCHANGED <<simctl_data, minimum_os, sim_device, sim_os_version, sel, log,
                 simulator_udid, error, polls, listing, va, vb, ka, kb>>

\* finally: subprocess.run([simctl_path, "shutdown", udid], check=False)
Shutdown ==
  /\ pc = "shutdown"
  /\ \E rc \in TeardownExitCodes :
       Issue(Command("shutdown", <<CreatedUdid>>, rc, <<>>))
  /\ pc' = "delete"
  /\ UNCHANGED <<simctl_data, minimum_os, sim_device, sim_os_version, sel,
                 simulator_udid, error, polls, listing, va, vb, ka, kb>>

\* a plausible slip: delete is run with check=False, as shutdown is
DeleteUnchecked ==
  /\ pc = "delete"
  /\ \E rc \in TeardownExitCodes :
       Issue(Command("delete", <<CreatedUdid>>, rc, <<>>))
  /\ pc' = "exit"
  /\ UNCHANGED <<simctl_data, minimum_os, sim_device, sim_os_version, sel,
                 simulator_udid, error, polls, listing, va, vb, ka, kb>>

\* finally: subprocess.run([simctl_path, "delete", udid], check=True); the
\* exception of the body, if any, goes on unless delete raises its own
Delete ==
  /\ pc = "delete"
  /\ \E rc \in TeardownExitCodes :
       /\ Issue(Command("delete", <<CreatedUdid>>, rc, <<>>))
       /\ IF rc # 0 THEN error' = Some(CalledProcessError("delete"))
          ELSE UNCHANGED error
  /\ pc' = "exit"
  /\ UNCHANGED <<simctl_data, minimum_os, sim_device, sim_os_version, sel,
                 simulator_udid, polls, listing, va, vb, ka, kb>>

NextEph ==
  \/ TmpCreate
  \/ Pkill
  \/ WorkCommand
  \/ WorkRaises
  \/ WorkReturns
  \/ Shutdown
  \/ Delete

SpecEph == InitEph /\ [][NextEph]_vars

C15_TeardownErrorPolicy ==
  [][ /\ pc = "shutdown" =>
           /\ log' = Append(log, log'[Len(log')])
           /\ log'[Len(log')].cmd = "shutdown"
           /\ pc' = "delete"
           /\ error' = error
      /\ pc = "delete" =>
           /\ log[Len(log)].cmd = "shutdown"
           /\ log' = Append(log, log'[Len(log')])
           /\ log'[Len(log')].cmd = "delete"
           /\ pc' = "exit"
           /\ log'[Len(log')].returncode # 0 => error' = Some(CalledProcessError("delete"))
           /\ log'[Len(log')].returncode = 0 => error' = error
    ]_vars

\* C15's case: a command of the work failed, shutdown failed, delete was
\* issued all the same and failed too, and the scope ended with the error of
\* delete.
C15_Witness ==
  /\ pc = "exit"
  /\ \E i \in Issued("work") : log[i].returncode = 1
  /\ Issued("shutdown") = {Len(log) - 1} /\ log[Len(log) - 1].returncode = 1
  /\ Issued("delete") = {Len(log)} /\ log[Len(log)].returncode = 1
  /\ error = Some(CalledProcessError("delete"))

\* C15's other case: the work returned, shutdown failed, delete failed.
C15_WitnessAfterSuccess ==
  /\ pc = "exit"
  /\ Issued("work") = {}
  /\ Len(log) = 4
  /\ log[3].cmd = "shutdown" /\ log[3].returncode = 1
  /\ log[4].cmd = "delete" /\ log[4].returncode = 1
  /\ error = Some(CalledProcessError("delete"))

====
